---- MODULE Spec2Model ----
(***************************************************************************)
(* rejx: merging the hunks of a .rej file back into its target file.       *)
(*                                                                         *)
(* A line of text is a sequence of one-character strings, so that prefix   *)
(* tests, the hunk-header regular expression, newline normalisation and    *)
(* the ".rej" path substitution are computed character by character.       *)
(***************************************************************************)
EXTENDS Integers, Sequences, FiniteSets, TLC

(***************************************************************************)
(* Bounds of the explored inputs.                                          *)
(***************************************************************************)
MaxTarget == 3
MaxRej == 3
MaxFiles == 3

(***************************************************************************)
(* Python string and list primitives used by the code.                     *)
(***************************************************************************)
NL == "\n"

DigitChars == <<"0", "1", "2", "3", "4", "5", "6", "7", "8", "9">>

IsDigit(c) == \E d \in 1..10 : DigitChars[d] = c

DigitVal(c) == (CHOOSE d \in 1..10 : DigitChars[d] = c) - 1

\* int(s) for a non-empty string of decimal digits
RECURSIVE int(_)
int(s) ==
    IF s = <<>> THEN 0
    ELSE 10 * int(SubSeq(s, 1, Len(s) - 1)) + DigitVal(s[Len(s)])

\* str.startswith
startswith(s, prefix) ==
    /\ Len(prefix) <= Len(s)
    /\ SubSeq(s, 1, Len(prefix)) = prefix

\* str.endswith
endswith(s, suffix) ==
    /\ Len(suffix) <= Len(s)
    /\ SubSeq(s, Len(s) - Len(suffix) + 1, Len(s)) = suffix

\* str.rstrip("\n"): every trailing newline is removed
RECURSIVE rstrip_nl(_)
rstrip_nl(s) ==
    IF s # <<>> /\ s[Len(s)] = NL THEN rstrip_nl(SubSeq(s, 1, Len(s) - 1))
    ELSE s

\* str.replace(old, ""): every non-overlapping occurrence, left to right
RECURSIVE replace_with_empty(_, _)
replace_with_empty(s, old) ==
    IF s = <<>> THEN <<>>
    ELSE IF startswith(s, old)
         THEN replace_with_empty(SubSeq(s, Len(old) + 1, Len(s)), old)
         ELSE <<s[1]>> \o replace_with_empty(Tail(s), old)

\* One bound of a Python slice over a list of length n: a negative bound
\* counts from the end, and the result is clamped to 0..n.
SliceBound(i, n) ==
    LET j == IF i < 0 THEN i + n ELSE i
    IN  IF j < 0 THEN 0 ELSE IF j > n THEN n ELSE j

\* lst[lo:hi] with 0-based bounds
PySlice(lst, lo, hi) ==
    SubSeq(lst, SliceBound(lo, Len(lst)) + 1, SliceBound(hi, Len(lst)))

\* lst[lo:]
PySliceFrom(lst, lo) == PySlice(lst, lo, Len(lst))

(***************************************************************************)
(* line_info_regex = r"@@ -(\d+),(\d+) \+(\d+),(\d+) @@" under re.search.  *)
(***************************************************************************)
AtAt == <<"@", "@">>

\* the literal lit occurs in s at 1-based position i
LitAt(s, i, lit) ==
    /\ i + Len(lit) - 1 <= Len(s)
    /\ SubSeq(s, i, i + Len(lit) - 1) = lit

\* position just after the longest run of digits of s starting at i (\d+ is
\* greedy, and every literal that follows a group starts with a non-digit)
RECURSIVE DigitsEnd(_, _)
DigitsEnd(s, i) ==
    IF i <= Len(s) /\ IsDigit(s[i]) THEN DigitsEnd(s, i + 1) ELSE i

\* the match of the pattern anchored at position i: matched, and group(1)
MatchAt(s, i) ==
    LET a1 == i + 4
        a2 == DigitsEnd(s, a1)
        b1 == a2 + 1
        b2 == DigitsEnd(s, b1)
        c1 == b2 + 2
        c2 == DigitsEnd(s, c1)
        d1 == c2 + 1
        d2 == DigitsEnd(s, d1)
        ok == /\ LitAt(s, i, <<"@", "@", " ", "-">>)
              /\ a2 > a1
              /\ LitAt(s, a2, <<",">>)
              /\ b2 > b1
              /\ LitAt(s, b2, <<" ", "+">>)
              /\ c2 > c1
              /\ LitAt(s, c2, <<",">>)
              /\ d2 > d1
              /\ LitAt(s, d2, <<" ", "@", "@">>)
    IN  [matched |-> ok, group1 |-> IF ok THEN SubSeq(s, a1, a2 - 1) ELSE <<>>]

\* re.search(line_info_regex, line): the leftmost match, if any
line_info_regex(line) ==
    LET hits == {i \in 1..Len(line) : MatchAt(line, i).matched}
    IN  IF hits = {} THEN [matched |-> FALSE, group1 |-> <<>>]
        ELSE MatchAt(line, CHOOSE i \in hits : \A j \in hits : i <= j)

(***************************************************************************)
(* apply_changes: the merge of the hunks of rej_lines into target_lines.   *)
(***************************************************************************)
VARIABLES
    target_lines,          \* argument: the lines of the target file
    rej_lines,             \* argument: the lines of the .rej file
    line_no,               \* number of rej_lines the for loop has consumed
    hunk_start,            \* 0-based start of the current hunk
    new_lines,             \* output accumulator
    current_hunk_changes,  \* staging buffer of the hunk being assembled
    processing_hunk,       \* a valid header has been seen
    raised,                \* "none", or the exception that ended the call
    pc                     \* "loop" | "done" | "raised" | "idle"

merge_vars == <<target_lines, rej_lines, line_no, hunk_start, new_lines,
                current_hunk_changes, processing_hunk, raised, pc>>

\* the local state of one call of apply_changes, as a record
MergeState == [hunk_start |-> hunk_start, new_lines |-> new_lines,
               current_hunk_changes |-> current_hunk_changes,
               processing_hunk |-> processing_hunk, raised |-> raised]

InitialMergeState == [hunk_start |-> 0, new_lines |-> <<>>,
                      current_hunk_changes |-> <<>>,
                      processing_hunk |-> FALSE, raised |-> "none"]

\* mutant: the staged lines replace new_lines instead of extending it
FlushHunk_Assigns(st) ==
    IF st.processing_hunk
    THEN [st EXCEPT !.new_lines = st.current_hunk_changes]
    ELSE st

\* new_lines.extend(current_hunk_changes) under "if processing_hunk"
FlushHunk(st) ==
    IF st.processing_hunk
    THEN [st EXCEPT !.new_lines = st.new_lines \o st.current_hunk_changes]
    ELSE st

\* target_lines[len(new_lines) : hunk_start]
HeaderCopy(target, out, start) == PySlice(target, Len(out), start)

\* mutant: old_start taken as a 0-based offset
HunkStartOf_ZeroBased(m) == int(m.group1)

\* int(matches.group(1)) - 1
HunkStartOf(m) == int(m.group1) - 1

\* the body of "if matches:"
StartHunk(st, target, m) ==
    [st EXCEPT !.hunk_start = HunkStartOf(m),
               !.processing_hunk = TRUE,
               !.new_lines = st.new_lines
                             \o HeaderCopy(target, st.new_lines, HunkStartOf(m))]

LINES_NOT_IN_REJ_FILE(st) == Len(st.new_lines) + Len(st.current_hunk_changes)

\* mutant: the length of the target is not compared with the cursor
chunks_not_in_rej_file_Unchecked(target, st) == TRUE

chunks_not_in_rej_file(target, st) == Len(target) > LINES_NOT_IN_REJ_FILE(st)

\* line[1:].rstrip("\n") + "\n"
AdditionPayload(line) == rstrip_nl(Tail(line)) \o <<NL>>

\* mutant: the staged lines are left out of the index of a context line
ContextCopy_IgnoresStaged(st, target) ==
    [st EXCEPT !.current_hunk_changes = Append(@, target[Len(st.new_lines) + 1])]

\* current_hunk_changes.append(target_lines[LINES_NOT_IN_REJ_FILE]); the
\* index is never negative, and an index past the end raises IndexError
ContextCopy(st, target) ==
    IF LINES_NOT_IN_REJ_FILE(st) < Len(target)
    THEN [st EXCEPT !.current_hunk_changes =
                        Append(@, target[LINES_NOT_IN_REJ_FILE(st) + 1])]
    ELSE [st EXCEPT !.raised = "IndexError"]

\* mutant: a context line is emitted with the text it has in the .rej file
ClassifyLine_EmitsRejText(st, target, line) ==
    IF ~st.processing_hunk THEN st
    ELSE IF startswith(line, <<"+">>)
         THEN [st EXCEPT !.current_hunk_changes = Append(@, AdditionPayload(line))]
         ELSE IF ~startswith(line, <<"-">>) /\ chunks_not_in_rej_file(target, st)
              THEN [st EXCEPT !.current_hunk_changes = Append(@, line)]
              ELSE st

\* the "if processing_hunk:" statement that ends the loop body
ClassifyLine(st, target, line) ==
    IF ~st.processing_hunk THEN st
    ELSE IF startswith(line, <<"+">>)
         THEN [st EXCEPT !.current_hunk_changes = Append(@, AdditionPayload(line))]
         ELSE IF ~startswith(line, <<"-">>) /\ chunks_not_in_rej_file(target, st)
              THEN ContextCopy(st, target)
              ELSE st

\* mutant: processing_hunk is set for every "@@" line, matching or not
LoopBody_AnyAtAtStartsHunk(st, target, line) ==
    IF startswith(line, AtAt)
    THEN LET flushed == [FlushHunk(st) EXCEPT !.current_hunk_changes =
                             IF st.processing_hunk THEN <<>> ELSE @]
             m == line_info_regex(line)
         IN  IF m.matched THEN StartHunk(flushed, target, m)
             ELSE ClassifyLine([flushed EXCEPT !.processing_hunk = TRUE],
                               target, line)
    ELSE ClassifyLine(st, target, line)

\* one iteration of "for line in rej_lines"
LoopBody(st, target, line) ==
    IF startswith(line, AtAt)
    THEN LET flushed == [FlushHunk(st) EXCEPT !.current_hunk_changes =
                             IF st.processing_hunk THEN <<>> ELSE @]
             m == line_info_regex(line)
         IN  IF m.matched THEN StartHunk(flushed, target, m)
             ELSE ClassifyLine(flushed, target, line)
    ELSE ClassifyLine(st, target, line)

\* the statements after the loop: the last flush and the remaining lines
Epilogue(st, target) ==
    LET flushed == FlushHunk(st)
    IN  flushed.new_lines \o PySliceFrom(target, Len(flushed.new_lines))

\* apply_changes as a function: ok = FALSE when an exception ended the call
RECURSIVE RunLoop(_, _, _, _)
RunLoop(st, target, rej, k) ==
    IF st.raised # "none" \/ k > Len(rej) THEN st
    ELSE RunLoop(LoopBody(st, target, rej[k]), target, rej, k + 1)

apply_changes(target, rej) ==
    LET st == RunLoop(InitialMergeState, target, rej, 1)
    IN  IF st.raised # "none" THEN [ok |-> FALSE, lines |-> <<>>]
        ELSE [ok |-> TRUE, lines |-> Epilogue(st, target)]

(***************************************************************************)
(* The explored inputs.                                                    *)
(***************************************************************************)
\* str(n) for a natural number
RECURSIVE str(_)
str(n) ==
    IF n < 10 THEN <<DigitChars[n + 1]>>
    ELSE str(n \div 10) \o <<DigitChars[(n % 10) + 1]>>

\* the i-th line of a target file: "L<i>\n"
TargetLine(i) == <<"L">> \o str(i) \o <<NL>>

Targets == {[i \in 1..n |-> TargetLine(i)] : n \in 0..MaxTarget}

\* old_start of the explored headers: 0, every line of the longest target, and
\* the line after its last one
HeaderStarts == 0..MaxTarget

\* "@@ -<s>,1 +<s>,1 @@\n"
Header(s) ==
    <<"@", "@", " ", "-">> \o str(s) \o <<",", "1", " ", "+">> \o str(s)
        \o <<",", "1", " ", "@", "@", NL>>

\* "@@ -2 +2 @@\n": the counts are missing, the pattern does not match
MalformedHeader == <<"@", "@", " ", "-", "2", " ", "+", "2", " ", "@", "@", NL>>

AdditionX == <<"+", "X", NL>>
AdditionY == <<"+", "Y">>
DeletionL == <<"-", "L", "2", NL>>
ContextL == <<" ", "L", "2", NL>>

RejLineUniverse ==
    {Header(s) : s \in HeaderStarts}
        \cup {MalformedHeader, AdditionX, AdditionY, DeletionL, ContextL}

\* the sample of the tests: sample.txt and sample.txt.rej
SampleTarget ==
    <<<<"L", "i", "n", "e", " ", "1", "\n">>,
      <<"L", "i", "n", "e", " ", "2", "\n">>,
      <<"L", "i", "n", "e", " ", "3", "\n">>>>

SampleRej ==
    <<<<"-", "-", "-", " ", "s", "a", "m", "p", "l", "e", ".", "t", "x", "t", "\n">>,
      <<"+", "+", "+", " ", "s", "a", "m", "p", "l", "e", ".", "t", "x", "t", "\n">>,
      <<"@", "@", " ", "-", "2", ",", "3", " ", "+", "2", ",", "3", " ", "@", "@", "\n">>,
      <<"-", "L", "i", "n", "e", " ", "2", "\n">>,
      <<"+", "L", "i", "n", "e", " ", "2", " ", "-", " ", "M", "o", "d", "i", "f", "i", "e", "d", "\n">>,
      <<"L", "i", "n", "e", " ", "3", "\n">>>>

SampleExpected ==
    <<<<"L", "i", "n", "e", " ", "1", "\n">>,
      <<"L", "i", "n", "e", " ", "2", " ", "-", " ", "M", "o", "d", "i", "f", "i", "e", "d", "\n">>,
      <<"L", "i", "n", "e", " ", "3", "\n">>>>

RejInputs == UNION {[1..n -> RejLineUniverse] : n \in 0..MaxRej}

(***************************************************************************)
(* apply_changes as a state machine, one action per kind of loop step.     *)
(***************************************************************************)
MergeInit ==
    /\ target_lines \in Targets
    /\ rej_lines \in RejInputs
    /\ line_no = 0
    /\ hunk_start = 0
    /\ new_lines = <<>>
    /\ current_hunk_changes = <<>>
    /\ processing_hunk = FALSE
    /\ raised = "none"
    /\ pc = "loop"

CurrentLine == rej_lines[line_no + 1]

\* the loop consumes the current line
Iterate ==
    LET st == LoopBody(MergeState, target_lines, CurrentLine)
    IN  /\ line_no' = line_no + 1
        /\ hunk_start' = st.hunk_start
        /\ new_lines' = st.new_lines
        /\ current_hunk_changes' = st.current_hunk_changes
        /\ processing_hunk' = st.processing_hunk
        /\ raised' = st.raised
        /\ pc' = IF st.raised # "none" THEN "raised" ELSE "loop"
        /\ UNCHANGED <<target_lines, rej_lines>>

InLoop == pc = "loop" /\ line_no < Len(rej_lines)

IsHeaderLine(line) == startswith(line, AtAt) /\ line_info_regex(line).matched

IsMalformedHeaderLine(line) ==
    startswith(line, AtAt) /\ ~line_info_regex(line).matched

\* a "@@" line that matches the pattern
HunkHeaderLine == InLoop /\ IsHeaderLine(CurrentLine) /\ Iterate

\* a "@@" line that does not match the pattern
MalformedHeaderLine == InLoop /\ IsMalformedHeaderLine(CurrentLine) /\ Iterate

\* any other line before the first valid header
StrayLine ==
    /\ InLoop
    /\ ~startswith(CurrentLine, AtAt)
    /\ ~processing_hunk
    /\ Iterate

AdditionLine ==
    /\ InLoop
    /\ processing_hunk
    /\ startswith(CurrentLine, <<"+">>)
    /\ Iterate

DeletionLine ==
    /\ InLoop
    /\ processing_hunk
    /\ startswith(CurrentLine, <<"-">>)
    /\ Iterate

ContextLine ==
    /\ InLoop
    /\ processing_hunk
    /\ ~startswith(CurrentLine, AtAt)
    /\ ~startswith(CurrentLine, <<"+">>)
    /\ ~startswith(CurrentLine, <<"-">>)
    /\ Iterate

\* the loop is over: last flush, remaining lines, return new_lines
ReturnLines ==
    /\ pc = "loop"
    /\ line_no = Len(rej_lines)
    /\ new_lines' = Epilogue(MergeState, target_lines)
    /\ pc' = "done"
    /\ UNCHANGED <<target_lines, rej_lines, line_no, hunk_start,
                   current_hunk_changes, processing_hunk, raised>>

(***************************************************************************)
(* Files: a path is a string, a file is a text or is missing.              *)
(***************************************************************************)
PathA == <<"a">>
PathARej == <<"a", ".", "r", "e", "j">>
PathARejRej == <<"a", ".", "r", "e", "j", ".", "r", "e", "j">>
PathDot == <<".">>

PathUniverse == {PathA, PathARej, PathARejRej}

DotRej == <<".", "r", "e", "j">>

\* file.writelines(lines): the lines are written one after the other
RECURSIVE writelines(_)
writelines(lines) ==
    IF lines = <<>> THEN <<>> ELSE Head(lines) \o writelines(Tail(lines))

\* file.readlines(): the text is cut after every newline
RECURSIVE readlines(_)
readlines(text) ==
    IF text = <<>> THEN <<>>
    ELSE LET ends == {i \in 1..Len(text) : text[i] = NL}
             cut == IF ends = {} THEN Len(text)
                    ELSE CHOOSE i \in ends : \A j \in ends : i <= j
         IN  <<SubSeq(text, 1, cut)>> \o readlines(SubSeq(text, cut + 1, Len(text)))

NoFile == [exists |-> FALSE, text |-> <<>>]

File(text) == [exists |-> TRUE, text |-> text]

TextTarget == writelines(<<TargetLine(1), TargetLine(2)>>)
TextRejSubst == writelines(<<Header(2), DeletionL, AdditionX>>)
TextRejAdd == writelines(<<Header(1), AdditionY>>)

FileTexts == {TextTarget, TextRejSubst, TextRejAdd}

FileSystems == [PathUniverse -> {NoFile} \cup {File(t) : t \in FileTexts}]

\* pathlib.Path(path).is_file()
is_file(files, path) == path \in DOMAIN files /\ files[path].exists

\* pathlib.Path(path).is_dir(): the current directory is the only directory
is_dir(files, path) == path = PathDot

\* rej_file_path.replace(".rej", "")
TargetFilePath(rej_file_path) == replace_with_empty(rej_file_path, DotRej)

\* mutant: a missing .rej file is read as an empty one
parse_rej_file_MissingIsEmpty(files, rej_file_path) ==
    IF is_file(files, rej_file_path)
    THEN [raised |-> "none", lines |-> readlines(files[rej_file_path].text)]
    ELSE [raised |-> "none", lines |-> <<>>]

\* parse_rej_file: FileNotFoundError is turned into typer.Exit
parse_rej_file(files, rej_file_path) ==
    IF is_file(files, rej_file_path)
    THEN [raised |-> "none", lines |-> readlines(files[rej_file_path].text)]
    ELSE [raised |-> "Exit", lines |-> <<>>]

\* process_rej_file: the value returned, the files after the call and the
\* write it made, if any; every exception is caught by "except Exception"
process_rej_file(files, rej_file_path) ==
    LET target_file_path == TargetFilePath(rej_file_path)
        rej == parse_rej_file(files, rej_file_path)
        failed == [success |-> FALSE, files |-> files, wrote |-> <<>>]
    IN  IF rej.raised # "none" THEN failed
        ELSE IF ~is_file(files, target_file_path) THEN failed
        ELSE LET target == readlines(files[target_file_path].text)
                 modified == apply_changes(target, rej.lines)
             IN  IF ~modified.ok THEN failed
                 ELSE [success |-> TRUE,
                       files |-> [files EXCEPT ![target_file_path] =
                                      File(writelines(modified.lines))],
                       wrote |-> <<[path |-> target_file_path,
                                    lines |-> modified.lines]>>]

(***************************************************************************)
(* The fix command, and process_rej_file called on its own.                *)
(***************************************************************************)
VARIABLES
    fs,         \* the files on disk
    fs0,        \* the files on disk when the command started
    rej_files,  \* fix: the list of files to process
    file_no,    \* fix: number of rej_files the for loop has consumed
    calls,      \* the arguments of the calls of process_rej_file, in order
    results,    \* the values these calls returned
    writes,     \* the writes these calls made
    exit_code,  \* exit code of the command, -1 while it runs
    fix_pc      \* "start" | "loop" | "done" | "returned" | "idle"

fix_vars == <<fs, fs0, rej_files, file_no, calls, results, writes, exit_code,
              fix_pc>>

vars == <<merge_vars, fix_vars>>

FixInit ==
    /\ fs \in FileSystems
    /\ fs0 = fs
    /\ rej_files = <<>>
    /\ file_no = 0
    /\ calls = <<>>
    /\ results = <<>>
    /\ writes = <<>>
    /\ exit_code = -1
    /\ fix_pc = "start"

DiscoveredLists == UNION {[1..n -> PathUniverse] : n \in 0..MaxFiles}

\* fix <file>: "is_file() and not apply_to_all_files", then "if not rej_files"
FixSingleFile(path, apply_to_all_files) ==
    /\ fix_pc = "start"
    /\ is_file(fs, path) /\ ~apply_to_all_files
    /\ rej_files' = <<path>>
    /\ fix_pc' = "loop"
    /\ UNCHANGED <<fs, fs0, file_no, calls, results, writes, exit_code>>

\* fix <dir> --all where find_rej_files is replaced by a function returning
\* a list, as the tests do
FixDiscovered(path, apply_to_all_files, found) ==
    /\ fix_pc = "start"
    /\ ~(is_file(fs, path) /\ ~apply_to_all_files)
    /\ is_dir(fs, path) /\ apply_to_all_files
    /\ rej_files' = found
    /\ IF found = <<>>
       THEN fix_pc' = "done" /\ exit_code' = 0
       ELSE fix_pc' = "loop" /\ exit_code' = exit_code
    /\ UNCHANGED <<fs, fs0, file_no, calls, results, writes>>

\* fix <dir> --all with utils.find_rej_files itself: it takes no "path"
\* argument, the call raises TypeError and the command fails
FixDiscoveryTypeError(path, apply_to_all_files) ==
    /\ fix_pc = "start"
    /\ ~(is_file(fs, path) /\ ~apply_to_all_files)
    /\ is_dir(fs, path) /\ apply_to_all_files
    /\ fix_pc' = "done"
    /\ exit_code' = 1
    /\ UNCHANGED <<fs, fs0, rej_files, file_no, calls, results, writes>>

\* neither a file without --all nor a directory with --all: typer.Exit(1)
FixUsageError(path, apply_to_all_files) ==
    /\ fix_pc = "start"
    /\ ~(is_file(fs, path) /\ ~apply_to_all_files)
    /\ ~(is_dir(fs, path) /\ apply_to_all_files)
    /\ fix_pc' = "done"
    /\ exit_code' = 1
    /\ UNCHANGED <<fs, fs0, rej_files, file_no, calls, results, writes>>

rej_file == rej_files[file_no + 1]

\* rej_file.endswith(".rej")
IsRejPath(path) == endswith(path, DotRej)

\* "if not rej_file.endswith(".rej")": log and continue
FixSkipNonRej ==
    /\ fix_pc = "loop"
    /\ file_no < Len(rej_files)
    /\ ~IsRejPath(rej_file)
    /\ file_no' = file_no + 1
    /\ UNCHANGED <<fs, fs0, rej_files, calls, results, writes, exit_code, fix_pc>>

\* the effect of one call of process_rej_file on the files and the log
Call(path) ==
    LET r == process_rej_file(fs, path)
    IN  /\ fs' = r.files
        /\ calls' = Append(calls, path)
        /\ results' = Append(results, r.success)
        /\ writes' = writes \o r.wrote

\* mutant: a file that fails ends the command with exit code 1
FixProcess_StopsOnFailure ==
    /\ fix_pc = "loop"
    /\ file_no < Len(rej_files)
    /\ IsRejPath(rej_file)
    /\ Call(rej_file)
    /\ file_no' = file_no + 1
    /\ IF process_rej_file(fs, rej_file).success
       THEN fix_pc' = fix_pc /\ exit_code' = exit_code
       ELSE fix_pc' = "done" /\ exit_code' = 1
    /\ UNCHANGED <<fs0, rej_files>>

\* rejx.utils.process_rej_file(rej_file); its result is not looked at
FixProcess ==
    /\ fix_pc = "loop"
    /\ file_no < Len(rej_files)
    /\ IsRejPath(rej_file)
    /\ Call(rej_file)
    /\ file_no' = file_no + 1
    /\ UNCHANGED <<fs0, rej_files, exit_code, fix_pc>>

\* the loop is over and fix returns
FixReturn ==
    /\ fix_pc = "loop"
    /\ file_no = Len(rej_files)
    /\ fix_pc' = "done"
    /\ exit_code' = 0
    /\ UNCHANGED <<fs, fs0, rej_files, file_no, calls, results, writes>>

\* process_rej_file(path) called on its own, as the tests do
CallProcessRejFile(path) ==
    /\ fix_pc = "start"
    /\ Call(path)
    /\ fix_pc' = "returned"
    /\ UNCHANGED <<fs0, rej_files, file_no, exit_code>>

(***************************************************************************)
(* Specifications.                                                         *)
(***************************************************************************)
FixIdle ==
    /\ fs = <<>>
    /\ fs0 = <<>>
    /\ rej_files = <<>>
    /\ file_no = 0
    /\ calls = <<>>
    /\ results = <<>>
    /\ writes = <<>>
    /\ exit_code = -1
    /\ fix_pc = "idle"

MergeIdle ==
    /\ target_lines = <<>>
    /\ rej_lines = <<>>
    /\ line_no = 0
    /\ hunk_start = 0
    /\ new_lines = <<>>
    /\ current_hunk_changes = <<>>
    /\ processing_hunk = FALSE
    /\ raised = "none"
    /\ pc = "idle"

Init == MergeInit /\ FixIdle

Next ==
    \/ HunkHeaderLine /\ UNCHANGED fix_vars
    \/ MalformedHeaderLine /\ UNCHANGED fix_vars
    \/ StrayLine /\ UNCHANGED fix_vars
    \/ AdditionLine /\ UNCHANGED fix_vars
    \/ DeletionLine /\ UNCHANGED fix_vars
    \/ ContextLine /\ UNCHANGED fix_vars
    \/ ReturnLines /\ UNCHANGED fix_vars

\* one call of apply_changes on any of the explored inputs
Spec == Init /\ [][Next]_vars

FixSpecInit == FixInit /\ MergeIdle

FixSpecNext ==
    \/ \E path \in PathUniverse \cup {PathDot}, all \in BOOLEAN :
           \/ FixSingleFile(path, all) /\ UNCHANGED merge_vars
           \/ FixDiscoveryTypeError(path, all) /\ UNCHANGED merge_vars
           \/ FixUsageError(path, all) /\ UNCHANGED merge_vars
           \/ \E found \in DiscoveredLists :
                  FixDiscovered(path, all, found) /\ UNCHANGED merge_vars
    \/ FixSkipNonRej /\ UNCHANGED merge_vars
    \/ FixProcess /\ UNCHANGED merge_vars
    \/ FixReturn /\ UNCHANGED merge_vars
    \/ \E path \in PathUniverse : CallProcessRejFile(path) /\ UNCHANGED merge_vars

\* one run of fix, or one call of process_rej_file, on any explored disk
FixSpec == FixSpecInit /\ [][FixSpecNext]_vars

(***************************************************************************)
(* Properties of apply_changes.                                            *)
(***************************************************************************)
Done == pc = "done"

IsAdditionText(line) == line # <<>> /\ line[1] = "+"

IsDeletionText(line) == line # <<>> /\ line[1] = "-"

IsAtAtText(line) == Len(line) >= 2 /\ line[1] = "@" /\ line[2] = "@"

IsContextText(line) ==
    ~IsAdditionText(line) /\ ~IsDeletionText(line) /\ ~IsAtAtText(line)

\* the explored lines that are hunk headers
ValidHeaders == {Header(s) : s \in HeaderStarts}

\* old_start of an explored header
OldStart(line) == CHOOSE s \in HeaderStarts : line = Header(s)

\* the text an addition line adds: the line without its marker, ended by
\* one newline
Payload(line) ==
    IF line[Len(line)] = NL THEN Tail(line) ELSE Tail(line) \o <<NL>>

\* rej is a header at s, n deletions, n additions and k context lines
IsSubstitution(rej, s, n, k) ==
    /\ Len(rej) = 1 + 2 * n + k
    /\ rej[1] = Header(s)
    /\ \A i \in 2..(n + 1) : IsDeletionText(rej[i])
    /\ \A i \in (n + 2)..(2 * n + 1) : IsAdditionText(rej[i])
    /\ \A i \in (2 * n + 2)..Len(rej) : IsContextText(rej[i])

\* the original with lines s..s+n-1 replaced by the n payloads
Substituted(target, rej, s, n) ==
    SubSeq(target, 1, s - 1)
        \o [i \in 1..n |-> Payload(rej[n + 1 + i])]
        \o SubSeq(target, s + n, Len(target))

SampleIsSubstituted ==
    apply_changes(SampleTarget, SampleRej) = [ok |-> TRUE, lines |-> SampleExpected]

\* C1: a hunk at old_start s >= 1 made of n deletions, n additions and then
\* context lines, with s-1+n <= len(original), yields the original with
\* lines s..s+n-1 replaced by the n addition payloads and every other line
\* in place; the sample of the tests yields its expected lines.
C1_Substitution ==
    /\ SampleIsSubstituted
    /\ Done =>
         \A s \in HeaderStarts \ {0}, n \in 0..MaxRej, k \in 0..MaxRej :
             (IsSubstitution(rej_lines, s, n, k) /\ s - 1 + n <= Len(target_lines))
                 => new_lines = Substituted(target_lines, rej_lines, s, n)

C1_Witness ==
    /\ Done
    /\ \E s \in HeaderStarts \ {0}, n \in 1..MaxRej, k \in 0..MaxRej :
           /\ IsSubstitution(rej_lines, s, n, k)
           /\ s > 1
           /\ s - 1 + n < Len(target_lines)
           /\ new_lines = Substituted(target_lines, rej_lines, s, n)
           /\ new_lines # target_lines

\* C2: a hunk whose body is a deletion line for the original line at
\* old_start yields the original without that line, one line shorter.
C2_Deletion ==
    Done =>
        \A s \in 1..Len(target_lines) :
            rej_lines = <<Header(s), <<"-">> \o target_lines[s]>>
                => /\ new_lines = SubSeq(target_lines, 1, s - 1)
                                      \o SubSeq(target_lines, s + 1, Len(target_lines))
                   /\ Len(new_lines) = Len(target_lines) - 1

\* what a hunk body of context and addition lines is meant to produce from
\* the original lines from position c on
RECURSIVE Inserted(_, _, _)
Inserted(body, target, c) ==
    IF body = <<>> THEN SubSeq(target, c, Len(target))
    ELSE IF IsAdditionText(Head(body))
         THEN <<Payload(Head(body))>> \o Inserted(Tail(body), target, c)
         ELSE <<target[c]>> \o Inserted(Tail(body), target, c + 1)

NumAdditions(rej) == Cardinality({i \in DOMAIN rej : IsAdditionText(rej[i])})

NumContexts(rej) == Cardinality({i \in DOMAIN rej : IsContextText(rej[i])})

\* rej is a header at s >= 1 followed by context and addition lines only,
\* the context lines being lines of the original
IsAdditionOnly(rej, target, s) ==
    /\ rej # <<>>
    /\ s >= 1
    /\ rej[1] = Header(s)
    /\ \A i \in 2..Len(rej) : IsAdditionText(rej[i]) \/ IsContextText(rej[i])
    /\ s - 1 + NumContexts(rej) <= Len(target)

\* C3: a hunk of context and addition lines only yields every original
\* line in order with the payloads inserted after the preceding context,
\* so the result is longer than the original by the number of additions.
C3_AdditionOnly ==
    Done =>
        \A s \in HeaderStarts :
            IsAdditionOnly(rej_lines, target_lines, s)
                => /\ new_lines = SubSeq(target_lines, 1, s - 1)
                                      \o Inserted(Tail(rej_lines), target_lines, s)
                   /\ Len(new_lines) = Len(target_lines) + NumAdditions(rej_lines)

\* C4: a rej input without "+" and "-" lines yields the original, whatever
\* the old_start values of its headers.
C4_NoOpHunk ==
    Done =>
        ((\A i \in DOMAIN rej_lines :
              ~IsAdditionText(rej_lines[i]) /\ ~IsDeletionText(rej_lines[i]))
            => new_lines = target_lines)

C4_Witness ==
    /\ Done
    /\ \A i \in DOMAIN rej_lines :
           ~IsAdditionText(rej_lines[i]) /\ ~IsDeletionText(rej_lines[i])
    /\ Len(rej_lines) = 3
    /\ rej_lines[1] \in ValidHeaders
    /\ IsContextText(rej_lines[2])
    /\ IsContextText(rej_lines[3])
    /\ Len(target_lines) = 3
    /\ new_lines = target_lines

\* the positions of the hunk headers of rej
HeaderIdx(rej) == {i \in DOMAIN rej : rej[i] \in ValidHeaders}

\* every "@@" line of rej is a hunk header
AllAtAtValid(rej) ==
    \A i \in DOMAIN rej : IsAtAtText(rej[i]) => rej[i] \in ValidHeaders

\* two hunks that follow each other
Consecutive(rej, h1, h2) ==
    /\ h1 \in HeaderIdx(rej)
    /\ h2 \in HeaderIdx(rej)
    /\ h1 < h2
    /\ \A h \in HeaderIdx(rej) : ~(h1 < h /\ h < h2)

\* number of original lines the body lines at positions lo..hi stand for:
\* the context and the deletion lines
Consumed(rej, lo, hi) ==
    Cardinality({i \in lo..hi : i \in DOMAIN rej /\ ~IsAdditionText(rej[i])})

Occurrences(lines, x) == Cardinality({i \in DOMAIN lines : lines[i] = x})

\* two or more hunks, old_start from 1 on and increasing
IsMultipleHunks(rej) ==
    /\ AllAtAtValid(rej)
    /\ Cardinality(HeaderIdx(rej)) >= 2
    /\ \A h \in HeaderIdx(rej) : OldStart(rej[h]) >= 1
    /\ \A h1, h2 \in HeaderIdx(rej) :
           Consecutive(rej, h1, h2) => OldStart(rej[h1]) < OldStart(rej[h2])

\* C5: with two or more hunks of increasing old_start, every original line
\* strictly between the lines one hunk stands for and the old_start of the
\* next hunk is in the result exactly once.
C5_MultipleHunks ==
    Done =>
        (IsMultipleHunks(rej_lines) =>
            \A h1, h2 \in HeaderIdx(rej_lines) :
                Consecutive(rej_lines, h1, h2) =>
                    \A j \in (OldStart(rej_lines[h1])
                                  + Consumed(rej_lines, h1 + 1, h2 - 1))
                             ..(OldStart(rej_lines[h2]) - 1) :
                        j <= Len(target_lines)
                            => Occurrences(new_lines, target_lines[j]) = 1)

\* C5 holds of the rej inputs without addition lines
C5_WithoutAdditions == NumAdditions(rej_lines) = 0 => C5_MultipleHunks

RECURSIVE IsSubsequence(_, _)
IsSubsequence(a, b) ==
    IF a = <<>> THEN TRUE
    ELSE IF b = <<>> THEN FALSE
    ELSE IF Head(a) = Head(b) THEN IsSubsequence(Tail(a), Tail(b))
    ELSE IsSubsequence(a, Tail(b))

LastHeader(rej) == CHOOSE h \in HeaderIdx(rej) : \A g \in HeaderIdx(rej) : g <= h

\* C6: the original lines after the lines the last hunk stands for are in
\* the result, unmodified and in original order.
C6_TrailingTail ==
    Done =>
        ((HeaderIdx(rej_lines) # {} /\ AllAtAtValid(rej_lines)
              /\ OldStart(rej_lines[LastHeader(rej_lines)]) >= 1)
            => IsSubsequence(
                   SubSeq(target_lines,
                          OldStart(rej_lines[LastHeader(rej_lines)])
                              + Consumed(rej_lines, LastHeader(rej_lines) + 1,
                                         Len(rej_lines)),
                          Len(target_lines)),
                   new_lines))

\* C6 holds of the rej inputs without addition lines
C6_WithoutAdditions == NumAdditions(rej_lines) = 0 => C6_TrailingTail

\* the lines produced so far: the flushed ones and the staged ones
Merged == new_lines \o current_hunk_changes

\* the loop is about to consume a "@@" line that is no hunk header
AtMalformedHeader ==
    /\ pc = "loop"
    /\ line_no < Len(rej_lines)
    /\ IsAtAtText(rej_lines[line_no + 1])
    /\ rej_lines[line_no + 1] \notin ValidHeaders

\* a step over such a line starts no hunk and copies, as for a context
\* line, at most the original line at the cursor
MalformedHeaderIsContext ==
    AtMalformedHeader =>
        /\ hunk_start' = hunk_start
        /\ processing_hunk' = processing_hunk
        /\ new_lines' \o current_hunk_changes' =
               Merged \o (IF processing_hunk /\ Len(Merged) < Len(target_lines)
                          THEN <<target_lines[Len(Merged) + 1]>>
                          ELSE <<>>)

\* every step of the loop consumes one line of rej_lines, so that the loop
\* ends after len(rej_lines) steps, and the step after it returns
LoopProgress ==
    pc = "loop" =>
        \/ pc' = "loop" /\ line_no' = line_no + 1 /\ line_no' <= Len(rej_lines)
        \/ pc' = "done" /\ line_no = Len(rej_lines)

\* C7: a "@@" line that does not match the pattern starts no hunk and is
\* handled as a non-header line; the original is never indexed out of
\* range, and the call ends with a result: no exception is raised, every
\* step consumes a line, and no step is left only when the result is there.
C7_MalformedHeaderTolerance ==
    /\ [][MalformedHeaderIsContext /\ LoopProgress]_vars
    /\ [](raised = "none" /\ pc \in {"loop", "done"}
             /\ line_no <= Len(rej_lines))

\* a malformed header is met in a hunk with the cursor at the end of the
\* original
C7_Witness ==
    /\ Done
    /\ Len(rej_lines) = 3
    /\ rej_lines[1] = Header(1)
    /\ IsContextText(rej_lines[2])
    /\ rej_lines[3] = MalformedHeader
    /\ Len(target_lines) = 1
    /\ new_lines = target_lines

\* C8: a rej input without any hunk header yields the original, whatever
\* its other lines are.
C8_NoValidHeader ==
    Done => (HeaderIdx(rej_lines) = {} => new_lines = target_lines)

C8_Witness ==
    /\ Done
    /\ HeaderIdx(rej_lines) = {}
    /\ \E i, j \in DOMAIN rej_lines :
           /\ i < j
           /\ rej_lines[i] = MalformedHeader
           /\ IsAdditionText(rej_lines[j])
    /\ target_lines # <<>>
    /\ new_lines = target_lines

\* the merge cursor: len(new_lines) + len(current_hunk_changes)
Cursor == Len(new_lines) + Len(current_hunk_changes)

\* a step of the loop from one rej line to the next
LoopStep == pc = "loop" /\ pc' = "loop" /\ line_no' = line_no + 1

\* the cursor does not decrease and the lines before it stay; a "@@" line
\* met in a hunk moves the staged lines to new_lines, before anything it
\* copies; a "-" line and a line outside a hunk leave the cursor alone
CursorStep ==
    LoopStep =>
        /\ Len(new_lines') + Len(current_hunk_changes') >= Cursor
        /\ SubSeq(new_lines' \o current_hunk_changes', 1, Cursor) = Merged
        /\ (IsAtAtText(rej_lines[line_no + 1]) /\ processing_hunk)
               => /\ Len(new_lines') >= Cursor
                  /\ SubSeq(new_lines', 1, Cursor) = Merged
                  /\ rej_lines[line_no + 1] \in ValidHeaders
                         => current_hunk_changes' = <<>>
        /\ (IsDeletionText(rej_lines[line_no + 1]) \/ ~processing_hunk')
               => Len(new_lines') + Len(current_hunk_changes') = Cursor
        /\ (IsAdditionText(rej_lines[line_no + 1]) /\ processing_hunk)
               => Len(new_lines') + Len(current_hunk_changes') = Cursor + 1

\* C13: the merge cursor len(new_lines) + len(current_hunk_changes) never
\* decreases from one processed rej line to the next; a flush leaves it
\* unchanged, a header, an addition or a context line can only increase it.
C13_CursorMonotonic == [][CursorStep]_vars

\* a header has just flushed a hunk that held an addition
C13_Witness ==
    /\ pc = "loop"
    /\ line_no = 3
    /\ rej_lines[1] \in ValidHeaders
    /\ IsAdditionText(rej_lines[2])
    /\ rej_lines[3] \in ValidHeaders
    /\ current_hunk_changes = <<>>
    /\ Len(new_lines) = 3

\* result[i] is the original line at the same index
IsOriginalAt(result, target, i) == i <= Len(target) /\ result[i] = target[i]

\* the entries of result from index i on that are not the original line at
\* their index, in order
RECURSIVE AddedFrom(_, _, _)
AddedFrom(result, target, i) ==
    IF i > Len(result) THEN <<>>
    ELSE (IF IsOriginalAt(result, target, i) THEN <<>> ELSE <<result[i]>>)
             \o AddedFrom(result, target, i + 1)

\* the payloads of the addition lines of rej from position j on, in order
RECURSIVE PayloadsFrom(_, _)
PayloadsFrom(rej, j) ==
    IF j > Len(rej) THEN <<>>
    ELSE (IF IsAdditionText(rej[j]) THEN <<Payload(rej[j])>> ELSE <<>>)
             \o PayloadsFrom(rej, j + 1)

FirstHeader(rej) == CHOOSE h \in HeaderIdx(rej) : \A g \in HeaderIdx(rej) : h <= g

\* the payloads of the addition lines that follow a hunk header
HunkPayloads(rej) ==
    IF HeaderIdx(rej) = {} THEN <<>> ELSE PayloadsFrom(rej, FirstHeader(rej))

\* a payload ends in one newline and holds no other
IsNormalized(line) ==
    /\ line # <<>>
    /\ line[Len(line)] = NL
    /\ \A i \in 1..(Len(line) - 1) : line[i] # NL

\* C14: every result[i] is original[i] or the payload of an addition line,
\* ended by exactly one newline; the text of a rej line that is no addition
\* is never emitted, and the payloads are in the result in rej order.
C14_PositionPreservation ==
    Done =>
        /\ \A i \in DOMAIN new_lines :
               \/ IsOriginalAt(new_lines, target_lines, i)
               \/ \E j \in DOMAIN rej_lines :
                      /\ IsAdditionText(rej_lines[j])
                      /\ new_lines[i] = Payload(rej_lines[j])
                      /\ IsNormalized(new_lines[i])
        /\ \A i \in DOMAIN new_lines, j \in DOMAIN rej_lines :
               ~IsAdditionText(rej_lines[j]) => new_lines[i] # rej_lines[j]
        /\ AddedFrom(new_lines, target_lines, 1) = HunkPayloads(rej_lines)

\* a hunk with an addition that lacks its newline, then a context line
C14_Witness ==
    /\ Done
    /\ Len(rej_lines) = 3
    /\ rej_lines[1] \in ValidHeaders
    /\ rej_lines[2] = AdditionY
    /\ rej_lines[3] = ContextL
    /\ Len(target_lines) = 3
    /\ \E i \in DOMAIN new_lines :
           /\ new_lines[i] = Payload(AdditionY)
           /\ i < Len(new_lines)
           /\ new_lines[i + 1] = target_lines[i + 1]

\* the loop is about to consume a hunk header
AtValidHeader ==
    /\ pc = "loop"
    /\ line_no < Len(rej_lines)
    /\ rej_lines[line_no + 1] \in ValidHeaders

Min(a, b) == IF a <= b THEN a ELSE b

\* the original lines at 0-based indices from..(upto - 1), none when upto
\* is not greater than from
OriginalBetween(target, from, upto) ==
    IF upto > from THEN SubSeq(target, from + 1, Min(upto, Len(target)))
    ELSE <<>>

\* a header step sets hunk_start to old_start - 1 and copies the original
\* lines from the output length up to hunk_start
HeaderCopiesUpToHunkStart ==
    AtValidHeader =>
        /\ hunk_start' = OldStart(rej_lines[line_no + 1]) - 1
        /\ new_lines' = Merged \o OriginalBetween(target_lines, Cursor,
                                                   OldStart(rej_lines[line_no + 1]) - 1)

\* C15: a valid header copies exactly the original lines at 0-based indices
\* from the output length up to, not including, hunk_start = old_start - 1,
\* and none when hunk_start is not greater than the output length,
\* old_start = 0 included.
C15_HeaderCopyBound == [][HeaderCopiesUpToHunkStart]_vars

\* C15 holds of the headers with old_start from 1 on
C15_FromLineOne ==
    [][(AtValidHeader /\ OldStart(rej_lines[line_no + 1]) = 0)
           \/ HeaderCopiesUpToHunkStart]_vars

(***************************************************************************)
(* Properties of process_rej_file and fix.                                 *)
(***************************************************************************)
\* the last four characters of path are ".rej"
EndsInDotRej(path) ==
    /\ Len(path) >= 4
    /\ path[Len(path) - 3] = "."
    /\ path[Len(path) - 2] = "r"
    /\ path[Len(path) - 1] = "e"
    /\ path[Len(path)] = "j"

\* C9: process_rej_file returns False for the path of an existing file
\* whose name does not end in ".rej".
C9_NonRejFileReturnsFalse ==
    (fix_pc = "returned" /\ fs0[calls[1]].exists /\ ~EndsInDotRej(calls[1]))
        => results[1] = FALSE

\* fix is looping over, or has looped over, a list of discovered files
InBatch == fix_pc \in {"loop", "done"} /\ rej_files # <<>>

\* C10: fix calls process_rej_file once for each discovered path ending in
\* ".rej", in list order, and for no other path; a call that returns False
\* does not stop the loop, and the command ends with exit code 0.
C10_BatchIsolation ==
    InBatch =>
        /\ calls = SelectSeq(SubSeq(rej_files, 1, file_no), EndsInDotRej)
        /\ Len(results) = Len(calls)
        /\ fix_pc = "done" => (file_no = Len(rej_files) /\ exit_code = 0)

\* a call failed, a later file was processed and a non-.rej path was skipped
C10_Witness ==
    /\ fix_pc = "done"
    /\ Len(rej_files) = 3
    /\ ~EndsInDotRej(rej_files[2])
    /\ Len(calls) = 2
    /\ results[1] = FALSE
    /\ results[2] = TRUE
    /\ exit_code = 0

\* a step in which process_rej_file is called, by fix or on its own
CallStep == Len(calls') = Len(calls) + 1

CalledPath == calls'[Len(calls')]

Returned == results'[Len(results')]

\* the file at path is on disk
OnDisk(files, path) == path \in DOMAIN files /\ files[path].exists

\* a call with the .rej file or the target missing returns False and leaves
\* the disk as it was
FailureLeavesDisk ==
    (CallStep /\ (~OnDisk(fs, CalledPath)
                      \/ ~OnDisk(fs, TargetFilePath(CalledPath))))
        => /\ Len(results') = Len(calls')
           /\ Returned = FALSE
           /\ fs' = fs
           /\ writes' = writes

\* a call writes at most once: the target, after both files were read and
\* merged, with the lines apply_changes returned
WriteIsTheMerge ==
    (CallStep /\ writes' # writes)
        => LET target == TargetFilePath(CalledPath)
               merged == apply_changes(readlines(fs[target].text),
                                       readlines(fs[CalledPath].text))
           IN  /\ OnDisk(fs, CalledPath)
               /\ OnDisk(fs, target)
               /\ merged.ok
               /\ writes' = Append(writes, [path |-> target, lines |-> merged.lines])
               /\ fs' = [fs EXCEPT ![target] = File(writelines(merged.lines))]
               /\ Returned = TRUE

\* C11: when the .rej file or its target does not exist, process_rej_file
\* returns False without raising and writes nothing, so the disk is as
\* before; the target is written only after both reads and the merge, with
\* exactly the lines apply_changes returned.
C11_FailureLeavesTargetUntouched ==
    [][FailureLeavesDisk /\ WriteIsTheMerge]_vars

\* the .rej file is there, its target is not, and the call has returned
C11_Witness ==
    /\ fix_pc = "returned"
    /\ calls = <<PathARej>>
    /\ fs0[PathARej].exists
    /\ ~fs0[PathA].exists
    /\ fs0[PathARejRej].exists
    /\ results = <<FALSE>>
    /\ writes = <<>>
    /\ fs = fs0

\* path without its last four characters
WithoutSuffix(path) == SubSeq(path, 1, Len(path) - 4)

\* C12: for a path ending in ".rej" the target path is the path with only
\* its final ".rej" removed, an earlier ".rej" being kept: a call that
\* succeeds has written that file.
C12_TargetPathMapping ==
    (fix_pc = "returned" /\ EndsInDotRej(calls[1]) /\ results = <<TRUE>>)
        => /\ TargetFilePath(calls[1]) = WithoutSuffix(calls[1])
           /\ Len(writes) = 1
           /\ writes[1].path = WithoutSuffix(calls[1])

\* C12 holds of the paths in which ".rej" occurs once
C12_SingleOccurrence ==
    \A i \in DOMAIN calls :
        (EndsInDotRej(calls[i]) /\ ~EndsInDotRej(WithoutSuffix(calls[i])))
            => TargetFilePath(calls[i]) = WithoutSuffix(calls[i])

\* the state machine and the function agree on the result
ResultIsApplyChanges ==
    Done => apply_changes(target_lines, rej_lines) = [ok |-> TRUE, lines |-> new_lines]

====
